---- MODULE Spec2Model ----
(***************************************************************************)
(* Model of the Mandelbrot renderer of src/main.go (the Generator          *)
(* revision, lines 140-351): parameter validation, the per-sample escape   *)
(* loop and colour mapping, the 4-point supersampling average, and the     *)
(* one-goroutine-per-row Generate with its WaitGroup, error channel and    *)
(* context cancellation.                                                   *)
(*                                                                         *)
(* float64 values are modelled in fixed point: a value x is the integer    *)
(* x * Scale, products and quotients are rounded to the nearest multiple   *)
(* of 1/Scale.  Integer and half-integer plane coordinates are exact in    *)
(* both float64 and this representation.                                   *)
(***************************************************************************)
EXTENDS Integers, Sequences, FiniteSets, TLC

\* ---------------------------------------------------------------- bounds
MaxWidth == 2
MaxHeight == 2
MaxCalls == 2
FracBits == 10

\* ------------------------------------------------------ program constants
Byte == 256
GMod == 128
BMod == 64
RBase == 64
GBase == 80
BBase == 240
Opaque == 255
EscapeRadius == 2
NumSamples == 4

Scale == 2^FracBits
Nil == "nil"
\* an error is its chain of wrapped errors, outermost first; <<>> is nil
NilErr == <<>>
\* fmt.Errorf(format with %w, err)
Wrap(format, err) == <<format>> \o err
RECURSIVE Is(_, _)
\* errors.Is
Is(err, target) == err # NilErr /\ (err = target \/ Is(Tail(err), target))
ErrInvalidParameters == <<"invalid parameters">>
\* context.Canceled, the value of ctx.Err() once Done is closed
Canceled == <<"context canceled">>
\* a pointer is <<>> (nil) or <<value>>
NilPtr == <<>>
Ptr(x) == <<x>>

\* ------------------------------------------------------------ fixed point
\* a / b rounded to nearest (b > 0)
RoundDiv(a, b) == (2 * a + b) \div (2 * b)
\* float64(i)
Fx(i) == i * Scale
FMul(a, b) == RoundDiv(a * b, Scale)
FDiv(a, b) == RoundDiv(a * Scale, b)
\* the literal 0.5
Half == Scale \div 2

\* complex128: <<re, im>>
CAdd(v, z) == <<v[1] + z[1], v[2] + z[2]>>
CMul(v, w) == <<FMul(v[1], w[1]) - FMul(v[2], w[2]), FMul(v[1], w[2]) + FMul(v[2], w[1])>>
\* cmplx.Abs(v) > 2, compared on the squares
AbsGt2(v) == v[1] * v[1] + v[2] * v[2] > EscapeRadius * EscapeRadius * Scale * Scale

\* ---------------------------------------------------------------- colours
uint8(i) == i % Byte
RGBA(r, g, b, a) == [R |-> r, G |-> g, B |-> b, A |-> a]
\* color.Black (Gray16{0}); its RGBA() is (0, 0, 0, 0xffff)
Black == RGBA(0, 0, 0, Opaque)
\* zero value of an image.RGBA pixel
ZeroPixel == RGBA(0, 0, 0, 0)

\* the claimed precedence: (80 - c*n) % 128 and (240 + c*n) % 64
EscapeColorParen(contrast, n) ==
    RGBA(uint8(RBase - uint8(uint8(contrast) * n)),
         uint8(GBase - uint8(uint8(contrast) * n)) % GMod,
         uint8(BBase + uint8(uint8(contrast) * n)) % BMod,
         Opaque)

\* the colour literal without its A field
EscapeColorTransparent(contrast, n) ==
    RGBA(uint8(RBase - uint8(uint8(contrast) * n)),
         uint8(GBase - (uint8(uint8(contrast) * n) % GMod)),
         uint8(BBase + (uint8(uint8(contrast) * n) % BMod)),
         0)

\* color.RGBA{R: 64 - uint8(c)*n, G: 80 - uint8(c)*n%128, B: 240 + uint8(c)*n%64, A: 255}
\* all operands are uint8; * and % bind tighter than + and -
EscapeColor(contrast, n) ==
    RGBA(uint8(RBase - uint8(uint8(contrast) * n)),
         uint8(GBase - (uint8(uint8(contrast) * n) % GMod)),
         uint8(BBase + (uint8(uint8(contrast) * n) % BMod)),
         Opaque)

\* uint8(g.params.RenderOpts.MaxIterations)
LoopBound(maxIterations) == uint8(maxIterations)

RECURSIVE MandelbrotLoopLate(_, _, _, _, _)
\* the counter incremented before the magnitude test
MandelbrotLoopLate(z, v, n, bound, contrast) ==
    IF ~(n < bound) THEN Black
    ELSE CHOOSE c \in { IF AbsGt2(v2) THEN EscapeColor(contrast, uint8(n + 1))
                        ELSE MandelbrotLoopLate(z, v2, uint8(n + 1), bound, contrast)
                        : v2 \in {CAdd(CMul(v, v), z)} } : TRUE

RECURSIVE MandelbrotLoop(_, _, _, _, _)
\* for n := uint8(0); n < bound; n++ { v = v*v + z; if cmplx.Abs(v) > 2 {...} }
\* v2 is the assigned v, computed once per iteration
MandelbrotLoop(z, v, n, bound, contrast) ==
    IF ~(n < bound) THEN Black
    ELSE CHOOSE c \in { IF AbsGt2(v2) THEN EscapeColor(contrast, n)
                        ELSE MandelbrotLoop(z, v2, uint8(n + 1), bound, contrast)
                        : v2 \in {CAdd(CMul(v, v), z)} } : TRUE

\* z is the argument value, v starts at its zero value
mandelbrot(z, opts) ==
    CHOOSE c \in { MandelbrotLoop(zv, <<0, 0>>, 0, LoopBound(opts.MaxIterations), opts.Contrast)
                   : zv \in {z} } : TRUE

\* the shift without the or: the low byte stays zero
WidenShiftOnly(v) == v * Byte

\* color.RGBA.RGBA(): r |= r << 8 for each 8-bit channel
Widen(v) == v + v * Byte

\* uint8(r / n >> 8): / and >> have equal precedence, left to right
AvgChannel(sum, n) == uint8((sum \div n) \div Byte)

RECURSIVE SumWidened(_, _, _)
\* r += cr over the samples; a uint32 cannot overflow on 4 values below 2^16
SumWidened(colors, ch, i) ==
    IF i > Len(colors) THEN 0
    ELSE Widen(colors[i][ch]) + SumWidened(colors, ch, i + 1)

\* a result literal without its A field
averageColorsNoAlpha(colors) ==
    IF Len(colors) = 0 THEN Black
    ELSE RGBA(AvgChannel(SumWidened(colors, "R", 1), Len(colors)),
              AvgChannel(SumWidened(colors, "G", 1), Len(colors)),
              AvgChannel(SumWidened(colors, "B", 1), Len(colors)),
              0)

averageColors(colors) ==
    IF Len(colors) = 0 THEN Black
    ELSE RGBA(AvgChannel(SumWidened(colors, "R", 1), Len(colors)),
              AvgChannel(SumWidened(colors, "G", 1), Len(colors)),
              AvgChannel(SumWidened(colors, "B", 1), Len(colors)),
              AvgChannel(SumWidened(colors, "A", 1), Len(colors)))

\* a sampler that honours the option: the first SubPixelSamples of the points
getSamplesConfigurable(x, y, samplingWidth, samplingHeight, opts) ==
    LET points == << <<x, y>>,
                     <<x + samplingWidth, y>>,
                     <<x + samplingWidth, y + samplingHeight>>,
                     <<x, y + samplingHeight>> >>
        count == IF opts.SubPixelSamples < NumSamples
                 THEN opts.SubPixelSamples ELSE NumSamples
    IN  [i \in 1..count |-> mandelbrot(points[i], opts)]

\* the 4 supersample points of getSamples, each coloured by mandelbrot
getSamples(x, y, samplingWidth, samplingHeight, opts) ==
    LET points == << <<x, y>>,
                     <<x + samplingWidth, y>>,
                     <<x + samplingWidth, y + samplingHeight>>,
                     <<x, y + samplingHeight>> >>
    IN  [i \in 1..NumSamples |-> mandelbrot(points[i], opts)]

\* ------------------------------------------------------------------ state
VARIABLES
    p,          \* the Parameters value the caller passes to NewGenerator
    gen,        \* pointer to the constructed Generator (its params), or nil
    newErr,     \* the error returned by NewGenerator
    gpc,        \* position of the caller / of Generate
    calls,      \* number of Generate calls started
    ctxDone,    \* ctx.Done() is closed
    preDone,    \* ctx was already cancelled when Generate was called
    img,        \* the image.RGBA under construction: cell -> colour
    spawnPy,    \* loop variable py of the spawning loop
    wg,         \* sync.WaitGroup counter
    tasks,      \* row goroutines: py -> [pc, px, ret (processRow's error)]
    errChan,    \* buffered error channel (capacity Height)
    retImg,     \* pointer to the image returned by Generate, or nil
    retErr,     \* error returned by Generate, or Nil
    prev,       \* what the previous Generate call returned
    writeLog,   \* history: every img.Set performed, as <<task, px, py>>
    atCancel,   \* history: pointer to the value of tasks when ctx was cancelled
    fn,         \* pure-function harness: the function applied
    fin,        \* its input
    fout        \* its output

vars == <<p, gen, newErr, gpc, calls, ctxDone, preDone, img, spawnPy, wg, tasks,
          errChan, retImg, retErr, prev, writeLog, atCancel, fn, fin, fout>>
genVars == <<p, gen, newErr, gpc, calls, ctxDone, preDone, img, spawnPy, wg, tasks,
             errChan, retImg, retErr, prev, writeLog, atCancel>>
fnVars == <<fn, fin, fout>>

\* g.params
params == gen[1]

\* ------------------------------------------------------------- parameters
XChoices == {-2, 0}
YChoices == {-2, 2}
WidthChoices == -1..MaxWidth
HeightChoices == 0..MaxHeight
SubPixelChoices == {0, 1, 4}
IterChoices == {0, 258}
ContrastChoices == {15, 100}

ParamChoices ==
    [XMin : XChoices, XMax : XChoices, YMin : YChoices, YMax : YChoices,
     Width : WidthChoices, Height : HeightChoices,
     SubPixelSamples : SubPixelChoices,
     MaxIterations : IterChoices, Contrast : {15}]

NewDefaultParameters ==
    [XMin |-> -2, YMin |-> -2, XMax |-> 2, YMax |-> 2,
     Width |-> 1024, Height |-> 1024,
     SubPixelSamples |-> 4, MaxIterations |-> 200, Contrast |-> 15]

\* the sample-count check accepting zero
SubPixelInvalidStrict(q) == q.SubPixelSamples < 0

SubPixelInvalid(q) == q.SubPixelSamples <= 0

\* validateParameters: the error it returns, or Nil
validateParameters(q) ==
    IF q.XMax <= q.XMin \/ q.YMax <= q.YMin
    THEN Wrap("%w: invalid viewport range", ErrInvalidParameters)
    ELSE IF q.Width <= 0 \/ q.Height <= 0
    THEN Wrap("%w: invalid image size", ErrInvalidParameters)
    ELSE IF SubPixelInvalid(q)
    THEN Wrap("%w: invalid subpixel samples", ErrInvalidParameters)
    ELSE NilErr

\* ---------------------------------------------------------------- pixels
Cells(g) == (0..(g.Width - 1)) \X (0..(g.Height - 1))
\* image.NewRGBA: every pixel zero
NewRGBA(g) == [c \in Cells(g) |-> ZeroPixel]

\* 0.5 / float64(Width) * (XMax - XMin)
SamplingWidth(g) == FMul(FDiv(Half, Fx(g.Width)), Fx(g.XMax) - Fx(g.XMin))
SamplingHeight(g) == FMul(FDiv(Half, Fx(g.Height)), Fx(g.YMax) - Fx(g.YMin))
\* float64(px)/float64(Width)*(XMax-XMin) + XMin
PlaneX(g, px) == FMul(FDiv(Fx(px), Fx(g.Width)), Fx(g.XMax) - Fx(g.XMin)) + Fx(g.XMin)
PlaneY(g, py) == FMul(FDiv(Fx(py), Fx(g.Height)), Fx(g.YMax) - Fx(g.YMin)) + Fx(g.YMin)

\* the body of processRow's default case: the colour written at (px, py)
\* colors := g.getSamples(...); c := averageColors(colors)
PixelColor(g, px, py) ==
    CHOOSE c \in { averageColors(colors)
                   : colors \in {getSamples(PlaneX(g, px), PlaneY(g, py),
                                            SamplingWidth(g), SamplingHeight(g), g)} } : TRUE

\* img.Set with the coordinates exchanged
SetCellSwapped(px, py) == <<py, px>>

\* the cell img.Set(px, py, c) addresses
SetCell(px, py) == <<px, py>>

\* img.Set: a point outside the rectangle is ignored
Set(im, cell, c) == IF cell \in DOMAIN im THEN [im EXCEPT ![cell] = c] ELSE im

\* ------------------------------------------------------------------- init
NoTasks == [t \in {} |-> 0]
\* no image allocated yet
NoImage == [c \in {} |-> ZeroPixel]

InitCommon ==
    /\ gen = NilPtr /\ newErr = NilErr /\ gpc = "new" /\ calls = 0
    /\ ctxDone = FALSE /\ preDone = FALSE
    /\ img = NoImage /\ spawnPy = 0 /\ wg = 0 /\ tasks = NoTasks
    /\ errChan = <<>> /\ retImg = NilPtr /\ retErr = NilErr /\ prev = NilPtr
    /\ writeLog = {} /\ atCancel = NilPtr
    /\ fn = "none" /\ fin = Nil /\ fout = Nil

Init == p \in ParamChoices /\ InitCommon

\* ---------------------------------------------------------------- actions
\* main: generator, err := NewGenerator(params)
NewGenerator ==
    /\ gpc = "new"
    /\ LET err == validateParameters(p)
       IN  IF err # NilErr
           THEN /\ gen' = NilPtr
                /\ newErr' = Wrap("invalid parameters: %w", err)
                /\ gpc' = "failed"
           ELSE /\ gen' = Ptr(p)
                /\ newErr' = NilErr
                /\ gpc' = "idle"
    /\ UNCHANGED <<p, calls, ctxDone, preDone, img, spawnPy, wg, tasks, errChan,
                   retImg, retErr, prev, writeLog, atCancel, fn, fin, fout>>

\* the caller, after a render that completed uncancelled, builds a Generator
\* from the same Parameters with another valid sample count: NewGenerator
\* succeeds (lines 191-196)
NewGeneratorWith(samples) ==
    /\ gpc = "returned"
    /\ retErr = NilErr /\ ~ctxDone
    /\ calls < MaxCalls
    /\ samples # p.SubPixelSamples
    /\ validateParameters([p EXCEPT !.SubPixelSamples = samples]) = NilErr
    /\ p' = [p EXCEPT !.SubPixelSamples = samples]
    /\ gen' = Ptr(p')
    /\ newErr' = NilErr
    /\ prev' = Ptr([img |-> retImg, err |-> retErr, cancelled |-> ctxDone,
                    params |-> params])
    /\ gpc' = "idle"
    /\ UNCHANGED <<calls, ctxDone, preDone, img, spawnPy, wg, tasks, errChan,
                   retImg, retErr, writeLog, atCancel, fn, fin, fout>>

\* entry of Generate up to the spawning loop (lines 216-223); the caller
\* passes a context that is already cancelled (pre) or not
CallGenerate(pre) ==
    /\ gpc \in {"idle", "returned"}
    /\ gen # NilPtr
    /\ calls < MaxCalls
    /\ calls' = calls + 1
    /\ prev' = IF gpc = "returned"
               THEN Ptr([img |-> retImg, err |-> retErr, cancelled |-> ctxDone,
                         params |-> params])
               ELSE prev
    /\ ctxDone' = pre
    /\ preDone' = pre
    /\ img' = NewRGBA(params)
    /\ spawnPy' = 0
    /\ wg' = 0
    /\ tasks' = [py \in 0..(params.Height - 1) |-> [pc |-> "unspawned", px |-> 0, ret |-> NilErr]]
    /\ errChan' = <<>>
    /\ retImg' = NilPtr
    /\ retErr' = NilErr
    /\ writeLog' = {}
    /\ gpc' = IF params.Height > 0 THEN "spawn" ELSE "wait"
    /\ atCancel' = IF pre THEN Ptr(tasks') ELSE NilPtr
    /\ UNCHANGED <<p, gen, newErr, fn, fin, fout>>

\* the caller's cancel function, at any moment of a running Generate
Cancel ==
    /\ gpc \in {"spawn", "wait", "range"}
    /\ ~ctxDone
    /\ ctxDone' = TRUE
    /\ atCancel' = Ptr(tasks)
    /\ UNCHANGED <<p, gen, newErr, gpc, calls, preDone, img, spawnPy, wg, tasks,
                   errChan, retImg, retErr, prev, writeLog, fn, fin, fout>>

\* one iteration of the loop of lines 226-234: wg.Add(1); go func(py)
SpawnRow ==
    /\ gpc = "spawn"
    /\ spawnPy < params.Height
    /\ wg' = wg + 1
    /\ tasks' = [tasks EXCEPT ![spawnPy].pc = "check"]
    /\ spawnPy' = spawnPy + 1
    /\ gpc' = IF spawnPy + 1 < params.Height THEN "spawn" ELSE "wait"
    /\ UNCHANGED <<p, gen, newErr, calls, ctxDone, preDone, img, errChan,
                   retImg, retErr, prev, writeLog, atCancel, fn, fin, fout>>

\* the row loop stopping one column early
RowLoopContinuesShort(g, px) == px < g.Width - 1

\* px < g.params.Size.Width
RowLoopContinues(g, px) == px < g.Width

\* a select that never takes the ctx.Done() case
CtxSelectedNever(done) == FALSE

\* select { case <-ctx.Done(): ... default: ... }
CtxSelected(done) == done

\* processRow, line 252-256: the loop test and the select of one iteration.
\* return nil runs the deferred wg.Done()
RowCheck(py) ==
    /\ py \in DOMAIN tasks
    /\ tasks[py].pc = "check"
    /\ IF ~RowLoopContinues(params, tasks[py].px)
       THEN /\ tasks' = [tasks EXCEPT ![py].pc = "done", ![py].ret = NilErr]
            /\ wg' = wg - 1
       ELSE IF CtxSelected(ctxDone)
       THEN /\ tasks' = [tasks EXCEPT ![py].pc = "send", ![py].ret = Canceled]
            /\ wg' = wg
       ELSE /\ tasks' = [tasks EXCEPT ![py].pc = "write"]
            /\ wg' = wg
    /\ UNCHANGED <<p, gen, newErr, gpc, calls, ctxDone, preDone, img, spawnPy,
                   errChan, retImg, retErr, prev, writeLog, atCancel, fn, fin, fout>>

\* a closure reading the loop variable of the spawning loop
RowArgCaptured(py, loopPy) == loopPy

\* go func(py int) {...}(py): the goroutine works on its own copy of py
RowArg(py, loopPy) == py

\* a row loop that does not advance: px++ missing
RowWriteNoAdvance(py) ==
    /\ py \in DOMAIN tasks
    /\ tasks[py].pc = "write"
    /\ LET px == tasks[py].px
           row == RowArg(py, spawnPy)
           cell == SetCell(px, row)
       IN  /\ img' = Set(img, cell, PixelColor(params, px, row))
           /\ writeLog' = writeLog \cup {<<py, cell[1], cell[2]>>}
    /\ tasks' = [tasks EXCEPT ![py].pc = "check"]
    /\ UNCHANGED <<p, gen, newErr, gpc, calls, ctxDone, preDone, spawnPy, wg,
                   errChan, retImg, retErr, prev, atCancel, fn, fin, fout>>

\* processRow, lines 257-260 and px++
RowWrite(py) ==
    /\ py \in DOMAIN tasks
    /\ tasks[py].pc = "write"
    /\ LET px == tasks[py].px
           row == RowArg(py, spawnPy)
           cell == SetCell(px, row)
       IN  /\ img' = Set(img, cell, PixelColor(params, px, row))
           /\ writeLog' = writeLog \cup {<<py, cell[1], cell[2]>>}
    /\ tasks' = [tasks EXCEPT ![py].pc = "check", ![py].px = @ + 1]
    /\ UNCHANGED <<p, gen, newErr, gpc, calls, ctxDone, preDone, spawnPy, wg,
                   errChan, retImg, retErr, prev, atCancel, fn, fin, fout>>

\* the send on an unbuffered channel: it needs a receiver, and Generate
\* receives only after wg.Wait
RowSendUnbuffered(py) ==
    /\ py \in DOMAIN tasks
    /\ tasks[py].pc = "send"
    /\ gpc = "range"
    /\ errChan' = Append(errChan, [err |-> tasks[py].ret, row |-> py])
    /\ tasks' = [tasks EXCEPT ![py].pc = "done"]
    /\ wg' = wg - 1
    /\ UNCHANGED <<p, gen, newErr, gpc, calls, ctxDone, preDone, img, spawnPy,
                   retImg, retErr, prev, writeLog, atCancel, fn, fin, fout>>

\* errChan <- err (line 231), then the deferred wg.Done()
RowSend(py) ==
    /\ py \in DOMAIN tasks
    /\ tasks[py].pc = "send"
    /\ Len(errChan) < params.Height
    /\ errChan' = Append(errChan, [err |-> tasks[py].ret, row |-> py])
    /\ tasks' = [tasks EXCEPT ![py].pc = "done"]
    /\ wg' = wg - 1
    /\ UNCHANGED <<p, gen, newErr, gpc, calls, ctxDone, preDone, img, spawnPy,
                   retImg, retErr, prev, writeLog, atCancel, fn, fin, fout>>

\* a join that does not wait for the counter to reach zero
WaitNoJoin ==
    /\ gpc = "wait"
    /\ gpc' = "range"
    /\ UNCHANGED <<p, gen, newErr, calls, ctxDone, preDone, img, spawnPy, wg, tasks,
                   errChan, retImg, retErr, prev, writeLog, atCancel, fn, fin, fout>>

\* wg.Wait() returns; close(errChan)
Wait ==
    /\ gpc = "wait"
    /\ wg = 0
    /\ gpc' = "range"
    /\ UNCHANGED <<p, gen, newErr, calls, ctxDone, preDone, img, spawnPy, wg, tasks,
                   errChan, retImg, retErr, prev, writeLog, atCancel, fn, fin, fout>>

\* a range loop that drains the errors and returns the image regardless
ReturnValueIgnoringErrors(ch, im) == [img |-> Ptr(im), err |-> NilErr]

\* a range loop that collects: the first and the last error received, joined
ReturnValueJoined(ch, im) ==
    IF Len(ch) > 0
    THEN [img |-> NilPtr,
          err |-> Wrap("error processing row: %w", Head(ch).err \o ch[Len(ch)].err)]
    ELSE [img |-> Ptr(im), err |-> NilErr]

\* lines 239-245: the first error received makes Generate return (nil, wrapped)
ReturnValue(ch, im) ==
    IF Len(ch) > 0
    THEN [img |-> NilPtr, err |-> Wrap("error processing row: %w", Head(ch).err)]
    ELSE [img |-> Ptr(im), err |-> NilErr]

Return ==
    /\ gpc = "range"
    /\ retImg' = ReturnValue(errChan, img).img
    /\ retErr' = ReturnValue(errChan, img).err
    /\ errChan' = IF Len(errChan) > 0 THEN Tail(errChan) ELSE errChan
    /\ gpc' = "returned"
    /\ UNCHANGED <<p, gen, newErr, calls, ctxDone, preDone, img, spawnPy, wg, tasks,
                   prev, writeLog, atCancel, fn, fin, fout>>

Next ==
    \/ NewGenerator
    \/ \E samples \in SubPixelChoices : NewGeneratorWith(samples)
    \/ \E pre \in BOOLEAN : CallGenerate(pre)
    \/ Cancel
    \/ SpawnRow
    \/ \E py \in 0..(MaxHeight - 1) : RowCheck(py)
    \/ \E py \in 0..(MaxHeight - 1) : RowWrite(py)
    \/ \E py \in 0..(MaxHeight - 1) : RowSend(py)
    \/ Wait
    \/ Return

Spec == Init /\ [][Next]_vars

\* the Go scheduler runs every runnable goroutine eventually: the goroutine
\* executing Generate and each row goroutine are weakly fair; the caller's
\* cancellation and further calls are not
GenerateStep == SpawnRow \/ Wait \/ Return
RowStep(py) == RowCheck(py) \/ RowWrite(py) \/ RowSend(py)
Fairness ==
    /\ WF_vars(GenerateStep)
    /\ \A py \in 0..(MaxHeight - 1) : WF_vars(RowStep(py))

\* valid parameters only: the default viewport and options at the model's
\* image sizes
LiveParamChoices ==
    [XMin : {-2}, XMax : {2}, YMin : {-2}, YMax : {2},
     Width : {2}, Height : 1..MaxHeight,
     SubPixelSamples : {4}, MaxIterations : {3}, Contrast : {15}]

InitLive == p \in LiveParamChoices /\ InitCommon

SpecFair == InitLive /\ [][Next]_vars /\ Fairness

\* ------------------------------------------------- pure-function harness
MaxSteps == 4

\* plane points on the half-integer lattice of [-2, 2] x [-2, 2]
SamplePoints == {<<a * Half, b * Half>> : a \in -4..4, b \in -4..4}
FnIterChoices == (0..MaxSteps) \cup {256 + k : k \in 0..MaxSteps} \cup {512}
\* the colours mandelbrot can return within MaxSteps steps
Palette(c) == {Black} \cup {EscapeColor(c, n) : n \in 0..MaxSteps}

InitFn == p = NewDefaultParameters /\ InitCommon

\* one evaluation of the escaped-colour literal of lines 287-292
FnEscapeColor ==
    /\ fn = "none"
    /\ \E c \in 0..(Byte - 1), n \in 0..(Byte - 1) :
          /\ fin' = [contrast |-> c, n |-> n]
          /\ fout' = EscapeColor(c, n)
    /\ fn' = "escapeColor"
    /\ UNCHANGED genVars

\* one call of mandelbrot
FnMandelbrot ==
    /\ fn = "none"
    /\ \E z \in SamplePoints, mi \in FnIterChoices, c \in ContrastChoices :
          /\ fin' = [z |-> z, MaxIterations |-> mi, Contrast |-> c]
          /\ fout' = mandelbrot(z, [MaxIterations |-> mi, Contrast |-> c])
    /\ fn' = "mandelbrot"
    /\ UNCHANGED genVars

\* one call of averageColors on 4 samples
FnAverageColors ==
    /\ fn = "none"
    /\ \E c \in ContrastChoices : \E colors \in [1..NumSamples -> Palette(c)] :
          /\ fin' = colors
          /\ fout' = averageColors(colors)
    /\ fn' = "averageColors"
    /\ UNCHANGED genVars

NextFn == FnEscapeColor \/ FnMandelbrot \/ FnAverageColors

SpecFn == InitFn /\ [][NextFn]_vars

\* ----------------------------------------------------------------- claims
Width == params.Width
Height == params.Height
\* the row task py performed img.Set on cell (px, py)
Wrote(py, px) == <<py, px, py>> \in writeLog
RowComplete(py) == \A px \in 0..(Width - 1) : Wrote(py, px)

\* C1: the task spawned for row py writes only cells (px, py) with
\* 0 <= px < width, so no cell is written by two distinct row tasks.
C1_RowOwnership ==
    /\ \A w \in writeLog : w[3] = w[1] /\ 0 <= w[2] /\ w[2] < Width
    /\ \A w1, w2 \in writeLog :
          (w1[2] = w2[2] /\ w1[3] = w2[3]) => w1[1] = w2[1]

\* two row tasks are both in the middle of their rows, each having written
C1_Witness ==
    \E t1, t2 \in DOMAIN tasks :
        /\ t1 # t2
        /\ tasks[t1].pc = "write" /\ tasks[t2].pc = "write"
        /\ tasks[t1].px > 0 /\ tasks[t2].px > 0
        /\ \E w1, w2 \in writeLog : w1[1] = t1 /\ w2[1] = t2

\* C2: with valid parameters and no cancellation Generate returns, without
\* error, a buffer of exactly width x height cells, each written by its row task.
C2_FullBuffer ==
    (gpc = "returned" /\ ~ctxDone) =>
        /\ retErr = NilErr
        /\ retImg # NilPtr
        /\ DOMAIN retImg[1] = Cells(params)
        /\ Cardinality(DOMAIN retImg[1]) = Width * Height
        /\ \A c \in Cells(params) : Wrote(c[2], c[1]) /\ retImg[1][c] # ZeroPixel

C2_Witness ==
    /\ gpc = "returned" /\ ~ctxDone
    /\ Width >= 2 /\ Height >= 2
    /\ retImg # NilPtr

\* C3: two Generate calls on identical parameters, neither cancelled, return
\* identical buffers whatever the scheduling of their row tasks.
C3_Determinism ==
    (gpc = "returned" /\ prev # NilPtr /\ ~ctxDone /\ ~prev[1].cancelled
       /\ prev[1].params = params) =>
        /\ retImg # NilPtr
        /\ prev[1].img # NilPtr
        /\ retImg = prev[1].img

\* the second of two uncancelled renders returned an image of several rows
\* and columns whose pixels are not all the same colour
C3_Witness ==
    /\ gpc = "returned" /\ prev # NilPtr /\ ~ctxDone /\ ~prev[1].cancelled
    /\ prev[1].params = params
    /\ retImg # NilPtr
    /\ Width >= 2 /\ Height >= 2
    /\ \E c1, c2 \in Cells(params) : retImg[1][c1] # retImg[1][c2]

\* C4: Generate returns a buffer only if every row task wrote all its width
\* pixels; if some row task returned the cancellation error, Generate returns
\* a wrapped row-processing error and a nil buffer.
C4_NoPartialImage ==
    gpc = "returned" =>
        /\ retImg # NilPtr =>
              /\ retErr = NilErr
              /\ \A py \in 0..(Height - 1) : RowComplete(py) /\ tasks[py].ret = NilErr
        /\ (\E py \in DOMAIN tasks : tasks[py].ret = Canceled) =>
              /\ retImg = NilPtr
              /\ retErr = Wrap("error processing row: %w", Canceled)
              /\ Is(retErr, Canceled)

\* Generate returned after one row was completed and another one was
\* abandoned with part of its pixels written
C4_Witness ==
    /\ gpc = "returned"
    /\ retImg = NilPtr /\ retErr # NilErr
    /\ \E t1, t2 \in DOMAIN tasks :
          /\ tasks[t1].ret = Canceled /\ tasks[t1].px > 0 /\ tasks[t1].px < Width
          /\ tasks[t2].ret = NilErr /\ RowComplete(t2)

\* C5: when ctx is already cancelled at the call of Generate, no row task
\* writes a pixel, every row task returns the cancellation error, and Generate
\* returns an error and no buffer.
C5_CancelledBeforeStart ==
    (preDone /\ gpc \in {"spawn", "wait", "range", "returned"}) =>
        /\ writeLog = {}
        /\ \A c \in DOMAIN img : img[c] = ZeroPixel
        /\ \A py \in DOMAIN tasks :
              /\ tasks[py].pc # "write"
              /\ tasks[py].pc \in {"send", "done"} => tasks[py].ret = Canceled
        /\ gpc = "returned" =>
              /\ retImg = NilPtr
              /\ Is(retErr, Canceled)
              /\ \A py \in 0..(Height - 1) : tasks[py].pc = "done"

C5_Witness ==
    /\ preDone /\ gpc = "returned"
    /\ Height >= 2 /\ Width >= 2
    /\ \A py \in 0..(Height - 1) : tasks[py].ret = Canceled

\* C6: NewGenerator fails with an InvalidParameters error, yields no
\* Generator, no buffer and no row task exactly when xMax <= xMin or
\* yMax <= yMin or width <= 0 or height <= 0 or subPixelSamples <= 0;
\* otherwise it succeeds.
C6_ValidationExact ==
    gpc # "new" =>
        LET invalid == \/ p.XMax <= p.XMin \/ p.YMax <= p.YMin
                       \/ p.Width <= 0 \/ p.Height <= 0
                       \/ p.SubPixelSamples <= 0
        IN  /\ invalid <=> gen = NilPtr
            /\ gen = NilPtr =>
                  /\ Is(newErr, ErrInvalidParameters)
                  /\ gpc = "failed" /\ calls = 0
                  /\ tasks = NoTasks /\ img = NoImage /\ retImg = NilPtr
                  /\ writeLog = {}
            /\ gen # NilPtr => newErr = NilErr /\ gen[1] = p

\* construction was refused for a zero sample count alone
C6_Witness ==
    /\ gpc = "failed"
    /\ p.XMax > p.XMin /\ p.YMax > p.YMin /\ p.Width > 0 /\ p.Height > 0
    /\ p.SubPixelSamples = 0
    /\ Is(newErr, ErrInvalidParameters)

\* C9: every Parameters value held by a constructed Generator satisfies the
\* data-model invariants, including maxIterations > 0.
C9_AcceptedParametersInvariant ==
    gen # NilPtr =>
        /\ params.XMax > params.XMin /\ params.YMax > params.YMin
        /\ params.Width > 0 /\ params.Height > 0
        /\ params.SubPixelSamples > 0
        /\ params.MaxIterations > 0

\* C7 as stated: R = (64 - c*n) mod 256, G = (80 - c*n) mod 128,
\* B = (240 + c*n) mod 64, A = 255 for the sample escaping at counter n.
C7_ClaimedEscapeColour ==
    fn = "escapeColor" =>
        LET cn == fin.contrast * fin.n
        IN  /\ fout.R = (RBase - cn) % Byte
            /\ fout.G = (GBase - cn) % GMod
            /\ fout.B = (BBase + cn) % BMod
            /\ fout.A = Opaque

\* C7 amended: the modulus applies to the product c*n alone, and the sum or
\* difference then wraps at 256: R = (64 - c*n) mod 256,
\* G = (80 - (c*n mod 128)) mod 256, B = (240 + (c*n mod 64)) mod 256, A = 255.
C7_EscapeColour ==
    fn = "escapeColor" =>
        LET cn == fin.contrast * fin.n
        IN  /\ fout.R = (RBase - cn) % Byte
            /\ fout.G = (GBase - (cn % GMod)) % Byte
            /\ fout.B = (BBase + (cn % BMod)) % Byte
            /\ fout.A = Opaque

\* an escape whose green channel wraps below zero and whose blue channel
\* wraps above 255
C7_Witness ==
    /\ fn = "escapeColor"
    /\ (fin.contrast * fin.n) % GMod > GBase
    /\ BBase + ((fin.contrast * fin.n) % BMod) >= Byte
    /\ fout.G > GMod

\* one application of v = v*v + z on a state [v, escaped]; an escaped state
\* is kept
OrbitStep(z, s) ==
    IF s.escaped THEN s
    ELSE LET v2 == CAdd(CMul(s.v, s.v), z)
         IN  [v |-> v2, escaped |-> AbsGt2(v2)]

RECURSIVE Orbit(_, _, _)
\* k applications of OrbitStep, by halving
Orbit(z, s, k) ==
    IF s.escaped \/ k = 0 THEN s
    ELSE IF k = 1 THEN OrbitStep(z, s)
    ELSE Orbit(z, Orbit(z, s, k \div 2), k - (k \div 2))

\* the magnitude exceeds 2 within the first k recurrence steps from v = 0
EscapesWithin(z, k) == Orbit(z, [v |-> <<0, 0>>, escaped |-> FALSE], k).escaped

\* C8 as stated: for maxIterations > 0 a sample is coloured in-set only if it
\* does not escape within the first maxIterations recurrence steps.
C8_InSetOnlyIfNoEscape ==
    (fn = "mandelbrot" /\ fin.MaxIterations > 0 /\ fout = Black) =>
        ~EscapesWithin(fin.z, fin.MaxIterations)

\* C10: each output channel of averageColors on 4 samples is
\* ((sum of the v*257) div 4) div 256, so 4 identical colours average to
\* that colour.
C10_AverageFormula ==
    fn = "averageColors" =>
        /\ \A ch \in {"R", "G", "B", "A"} :
              fout[ch] = (((fin[1][ch] * 257 + fin[2][ch] * 257
                            + fin[3][ch] * 257 + fin[4][ch] * 257) \div 4) \div 256)
        /\ (\A i \in 1..4 : fin[i] = fin[1]) => fout = fin[1]

\* samples whose 8-bit mean would round differently from the widened mean
C10_Witness ==
    /\ fn = "averageColors"
    /\ \E ch \in {"R", "G", "B"} :
          LET sum8 == fin[1][ch] + fin[2][ch] + fin[3][ch] + fin[4][ch]
          IN  fout[ch] # sum8 \div 4

\* the 0-based index of the first recurrence step, among the first limit
\* steps, after which the magnitude exceeds 2; -1 when there is none
FirstEscape(z, limit) ==
    IF \E k \in 0..(limit - 1) : EscapesWithin(z, k + 1)
    THEN CHOOSE k \in 0..(limit - 1) :
            /\ EscapesWithin(z, k + 1)
            /\ \A j \in 0..(k - 1) : ~EscapesWithin(z, j + 1)
    ELSE -1

\* C11: a sample whose magnitude first exceeds 2 at the loop iteration with
\* counter value k gets the escaped colour evaluated at n = k.
C11_EscapeAtK ==
    fn = "mandelbrot" =>
        LET k == FirstEscape(fin.z, fin.MaxIterations % Byte)
        IN  k >= 0 =>
              LET cn == fin.Contrast * k
              IN  fout = RGBA((RBase - cn) % Byte,
                              (GBase - (cn % GMod)) % Byte,
                              (BBase + (cn % BMod)) % Byte,
                              Opaque)

\* a sample that stays within magnitude 2 for two steps and leaves at the third
C11_Witness ==
    /\ fn = "mandelbrot"
    /\ FirstEscape(fin.z, fin.MaxIterations % Byte) = 2
    /\ fout = EscapeColor(fin.Contrast, 2)
    /\ fout # EscapeColor(fin.Contrast, 1)
    /\ fout # EscapeColor(fin.Contrast, 3)

\* the colours mandelbrot gives to the 4 supersample points of pixel (px, py)
SamplesOf(px, py) ==
    getSamples(PlaneX(params, px), PlaneY(params, py),
               SamplingWidth(params), SamplingHeight(params), params)
AllInSet(px, py) ==
    \E colors \in {SamplesOf(px, py)} :
        \A i \in 1..NumSamples :
            /\ colors[i].R = 0 /\ colors[i].G = 0
            /\ colors[i].B = 0 /\ colors[i].A = Opaque

\* C12: a pixel whose 4 supersample points are all classified in-set is
\* written to the buffer as opaque black (R = G = B = 0, A = 255).
C12_InSetPixelBlack ==
    [][\A w \in writeLog' \ writeLog :
          AllInSet(w[2], w[3]) =>
              /\ img'[<<w[2], w[3]>>].R = 0 /\ img'[<<w[2], w[3]>>].G = 0
              /\ img'[<<w[2], w[3]>>].B = 0 /\ img'[<<w[2], w[3]>>].A = Opaque]_vars

\* a written pixel whose 4 samples ran the whole loop without escaping, in
\* an image that also holds a pixel of another colour
C12_Witness ==
    /\ gen # NilPtr
    /\ params.MaxIterations % Byte >= 2
    /\ \E w1, w2 \in writeLog :
          /\ AllInSet(w1[2], w1[3])
          /\ img[<<w1[2], w1[3]>>].A = Opaque
          /\ ~AllInSet(w2[2], w2[3])
          /\ img[<<w2[2], w2[3]>>] # img[<<w1[2], w1[3]>>]

InCall == gpc \in {"spawn", "wait", "range", "returned"}
AllSpawned == \A py \in DOMAIN tasks : tasks[py].pc # "unspawned"
AllFinished == \A py \in DOMAIN tasks : tasks[py].pc = "done"

\* C13: all height row tasks are launched before Generate waits, Generate
\* returns only after every one of them has finished, and no row task writes
\* to the buffer after Generate has returned.
C13_FanOutThenJoin ==
    /\ [](InCall => DOMAIN tasks = 0..(Height - 1))
    /\ [](gpc \in {"wait", "range", "returned"} => AllSpawned /\ spawnPy = Height)
    /\ [](gpc \in {"range", "returned"} => AllFinished /\ wg = 0)
    /\ [][gpc = "returned" /\ gpc' \in {"returned", "idle"}
            => img' = img /\ writeLog' = writeLog /\ tasks' = tasks]_vars

\* Generate is blocked in wg.Wait while every row is launched, one row has
\* finished and another one is still writing
C13_Witness ==
    /\ gpc = "wait" /\ wg > 0
    /\ Height >= 2
    /\ \E t1, t2 \in DOMAIN tasks :
          /\ tasks[t1].pc = "done"
          /\ tasks[t2].pc = "write" /\ tasks[t2].px > 0

\* C14: under fair scheduling every started Generate returns, cancelled or
\* not; a row task reporting its error never finds the channel full, since
\* each task sends at most once and the capacity is height.
C14_Terminates ==
    /\ (gpc \in {"spawn", "wait", "range"}) ~> (gpc = "returned")
    /\ [](\A py \in DOMAIN tasks :
            tasks[py].pc = "send" => Len(errChan) < Height)
    /\ [](InCall => Len(errChan) <= Height)

\* every row of a cancelled render has reported its error: the channel is
\* filled to its capacity and Generate is about to read it
C14_Witness ==
    /\ gpc = "range"
    /\ Height >= 2
    /\ Len(errChan) = Height

\* the row tasks that were running (spawned, not returned) when the
\* cancellation signal was raised, and the state each was in
Cancelled == InCall /\ ctxDone /\ atCancel # NilPtr
RunningAtCancel == {py \in DOMAIN tasks : atCancel[1][py].pc \in {"check", "write"}}
\* 1 when the task had passed its check and not yet written that pixel
Pending(py) == IF atCancel[1][py].pc = "write" THEN 1 ELSE 0
Finished(py) == tasks[py].pc \in {"send", "done"}

\* C15 as claimed: once the cancellation signal is raised, every row task
\* still running writes at most one further pixel and then returns a
\* cancellation error.
C15_ClaimedAbort ==
    Cancelled =>
        \A py \in RunningAtCancel :
            /\ tasks[py].px <= atCancel[1][py].px + Pending(py)
            /\ Finished(py) => tasks[py].ret = Canceled

\* C15, amended: once the cancellation signal is raised, a row task still
\* running writes at most the one pixel whose check had already passed; it
\* returns a cancellation error if a per-pixel check remains after that
\* pixel, and nil if that pixel was the last of its row (the loop ends
\* without another check). A row started after the signal writes nothing and
\* returns a cancellation error. No step changes a pixel already written.
C15_AbortAtNextCheck ==
    /\ [](Cancelled =>
            \A py \in DOMAIN tasks :
                IF py \in RunningAtCancel
                THEN /\ tasks[py].px <= atCancel[1][py].px + Pending(py)
                     /\ tasks[py].pc = "write" => tasks[py] = atCancel[1][py]
                     /\ Finished(py) =>
                            /\ tasks[py].px = atCancel[1][py].px + Pending(py)
                            /\ tasks[py].ret =
                                 IF atCancel[1][py].px + Pending(py) < Width
                                 THEN Canceled ELSE NilErr
                ELSE IF atCancel[1][py].pc = "unspawned"
                THEN /\ tasks[py].px = 0 /\ tasks[py].pc # "write"
                     /\ Finished(py) => tasks[py].ret = Canceled
                ELSE tasks[py] = atCancel[1][py])
    /\ [][writeLog \subseteq writeLog' =>
            \A w \in writeLog : img'[<<w[2], w[3]>>] = img[<<w[2], w[3]>>]]_vars

\* a row cancelled between the check and the write of a pixel that is not its
\* last: it wrote that pixel, stopped at the next check with a cancellation
\* error, and the pixel is in the buffer; another row had completed before
C15_Witness ==
    /\ Cancelled
    /\ \E py \in RunningAtCancel :
          /\ atCancel[1][py].pc = "write"
          /\ atCancel[1][py].px + 1 < Width
          /\ tasks[py].pc = "done"
          /\ tasks[py].px = atCancel[1][py].px + 1
          /\ tasks[py].ret = Canceled
          /\ Wrote(py, atCancel[1][py].px)
    /\ \E py \in DOMAIN tasks :
          /\ atCancel[1][py].pc = "done"
          /\ RowComplete(py)

\* the rows whose processRow returned an error
Failed == {py \in DOMAIN tasks : tasks[py].ret # NilErr}

\* C16: if any row fails, Generate returns no image and exactly one error,
\* the one first enqueued on the error channel wrapped once as
\* "error processing row"; the other rows' errors stay unread in the channel,
\* and a failed row is never run again within the call.
C16_FirstErrorOnly ==
    /\ [](gpc = "returned" =>
            IF Failed # {}
            THEN /\ retImg = NilPtr
                 /\ \E py \in Failed :
                        retErr = Wrap("error processing row: %w", tasks[py].ret)
                 /\ Len(errChan) = Cardinality(Failed) - 1
            ELSE retErr = NilErr /\ errChan = <<>>)
    /\ [][gpc = "range" /\ gpc' = "returned" /\ errChan # <<>> =>
            /\ retErr' = Wrap("error processing row: %w", errChan[1].err)
            /\ errChan' = Tail(errChan)
            /\ tasks' = tasks /\ img' = img]_vars
    /\ [][calls' = calls =>
            \A py \in Failed :
                tasks[py].pc = "done" =>
                    /\ tasks'[py] = tasks[py]
                    /\ {w \in writeLog' : w[1] = py} = {w \in writeLog : w[1] = py}]_vars

\* Generate has returned the error of the first reporter while every other row
\* failed too: row 0 reported later, its error is still in the channel
C16_Witness ==
    /\ gpc = "returned"
    /\ Height >= 2
    /\ Failed = DOMAIN tasks
    /\ retImg = NilPtr
    /\ retErr = Wrap("error processing row: %w", Canceled)
    /\ errChan # <<>>
    /\ errChan[1].row = 0

\* the columns of row py that hold a written pixel
WrittenColumns(py) == {w[2] : w \in {v \in writeLog : v[3] = py}}

\* C17: within a row the pixels are written left to right, each at most
\* once: the written columns of row py are always the prefix 0..k-1, k being
\* the row task's column counter, and each write adds the column k itself.
C17_LeftToRight ==
    /\ [](InCall =>
            \A py \in DOMAIN tasks :
                /\ tasks[py].px \in 0..Width
                /\ WrittenColumns(py) = 0..(tasks[py].px - 1))
    /\ [][\A py \in DOMAIN tasks :
            tasks[py].pc = "write" /\ tasks'[py].pc = "check" /\ calls' = calls =>
                /\ tasks[py].px \notin WrittenColumns(py)
                /\ writeLog' \ writeLog = {<<py, tasks[py].px, py>>}
                /\ tasks'[py].px = tasks[py].px + 1]_vars

\* two rows in progress at different columns: one has written columns 0 and
\* 1, the other only column 0
C17_Witness ==
    /\ InCall
    /\ \E py1, py2 \in DOMAIN tasks :
          /\ py1 # py2
          /\ WrittenColumns(py1) = {0, 1}
          /\ WrittenColumns(py2) = {0}
          /\ tasks[py2].pc = "write"

\* the current render and the previous one ran to completion on parameters
\* that differ in SubPixelSamples and in nothing else
OnlySamplesDiffer ==
    /\ gpc = "returned" /\ prev # NilPtr /\ ~ctxDone /\ ~prev[1].cancelled
    /\ prev[1].params.SubPixelSamples # params.SubPixelSamples
    /\ [prev[1].params EXCEPT !.SubPixelSamples = params.SubPixelSamples] = params
\* the colour of the point at (dx, dy) half-pixels from the pixel's coordinate
SampleAt(px, py, dx, dy) ==
    mandelbrot(<<PlaneX(params, px) + dx * SamplingWidth(params),
                 PlaneY(params, py) + dy * SamplingHeight(params)>>, params)

\* C18: every pixel written is the average of the 4 points at the pixel's
\* coordinate and half a pixel right, right+down and down, whatever
\* SubPixelSamples is; two completed renders whose valid parameters differ
\* only in SubPixelSamples return identical buffers.
C18_SamplesIgnored ==
    /\ [](OnlySamplesDiffer =>
            /\ retImg # NilPtr /\ prev[1].img # NilPtr
            /\ retImg = prev[1].img)
    /\ [][\A w \in writeLog' \ writeLog :
            \E colors \in {<<SampleAt(w[2], w[3], 0, 0), SampleAt(w[2], w[3], 1, 0),
                              SampleAt(w[2], w[3], 1, 1), SampleAt(w[2], w[3], 0, 1)>>} :
                img'[<<w[2], w[3]>>] = averageColors(colors)]_vars

\* two completed renders with 4 and with 1 requested samples returned the same
\* image, which has a pixel whose 4 sample points do not all have one colour
C18_Witness ==
    /\ OnlySamplesDiffer
    /\ {prev[1].params.SubPixelSamples, params.SubPixelSamples} = {1, 4}
    /\ retImg # NilPtr /\ retImg = prev[1].img
    /\ \E c \in Cells(params) : \E i, j \in 1..NumSamples :
          /\ SamplesOf(c[1], c[2])[i] # SamplesOf(c[1], c[2])[j]
          /\ retImg[1][c] # SamplesOf(c[1], c[2])[1]

\* C19: every pixel a row task has written to the buffer has alpha 255,
\* and so has each of the 4 sample colours it averages.
C19_OpaquePixels ==
    /\ [](\A w \in writeLog : img[<<w[2], w[3]>>].A = Opaque)
    /\ [][\A w \in writeLog' \ writeLog :
            \E colors \in {SamplesOf(w[2], w[3])} :
                \A i \in 1..NumSamples : colors[i].A = Opaque]_vars

\* a written pixel that averages in-set and escaped samples, with alpha 255
C19_Witness ==
    /\ InCall
    /\ \E w \in writeLog : \E i, j \in 1..NumSamples :
          /\ SamplesOf(w[2], w[3])[i] = Black
          /\ SamplesOf(w[2], w[3])[j] # Black
          /\ img[<<w[2], w[3]>>].A = Opaque
          /\ img[<<w[2], w[3]>>] # Black

====
